---- MODULE Spec2Model ----
(***************************************************************************)
(* Model of src/app.py: the machine table kept by the database functions,  *)
(* the two Streamlit pages that read and write it, and the production      *)
(* calculation of production_calculator_page.                              *)
(*                                                                         *)
(* Conventions.                                                            *)
(*  - A text value is a sequence of characters, so that str.strip() is     *)
(*    computed and not assumed.                                            *)
(*  - A Python dict is a function; a missing key is a point outside its    *)
(*    DOMAIN.                                                              *)
(*  - A number of the calculation is an exact fraction <<n, d>> in lowest  *)
(*    terms with d > 0 (the code computes in floats; the model computes    *)
(*    the exact value the float approximates).                             *)
(*  - None is the empty sequence <<>>, a present value x is <<x>>.         *)
(*  - The machine types "Semi-Automatica" and "Automatica" are written     *)
(*    without their accents.                                               *)
(***************************************************************************)
EXTENDS Integers, Sequences, FiniteSets, TLC

VARIABLES
    machines,         \* table 'machines': name -> row
    editing_machine,  \* st.session_state.editing_machine
    current_page,     \* st.session_state.current_page
    now,              \* the wall clock read by datetime.now()
    last,             \* what the last database write returned and reported
    result            \* what the last run of the calculator page rendered

vars == <<machines, editing_machine, current_page, now, last, result>>

----------------------------------------------------------------------------
(* Exact fractions.                                                        *)

RECURSIVE GCD(_, _)
GCD(a, b) == IF b = 0 THEN a ELSE GCD(b, a % b)

Abs(x) == IF x < 0 THEN -x ELSE x

\* n/d in lowest terms, d > 0
Frac(n, d) ==
    LET s == IF d < 0 THEN -1 ELSE 1
        g == GCD(Abs(n), Abs(d))
    IN  <<(s * n) \div g, (s * d) \div g>>

R(n) == <<n, 1>>
RAdd(x, y) == Frac(x[1] * y[2] + y[1] * x[2], x[2] * y[2])
RSub(x, y) == Frac(x[1] * y[2] - y[1] * x[2], x[2] * y[2])
RMul(x, y) == Frac(x[1] * y[1], x[2] * y[2])
RDiv(x, y) == Frac(x[1] * y[2], x[2] * y[1])
RLt(x, y) == x[1] * y[2] < y[1] * x[2]
RLe(x, y) == x[1] * y[2] <= y[1] * x[2]
RPos(x) == x[1] > 0

----------------------------------------------------------------------------
(* Python values.                                                          *)

None == <<>>
Some(x) == <<x>>

EmptyDict == <<>>

\* dict.get(k, default)
Get(d, k, default) == IF k \in DOMAIN d THEN d[k] ELSE default

\* the dict without key k
Without(d, k) == [x \in DOMAIN d \ {k} |-> d[x]]

Range(f) == {f[x] : x \in DOMAIN f}

\* str.strip(): leading and trailing blanks removed
RECURSIVE LStrip(_)
LStrip(s) == IF s /= <<>> /\ Head(s) = " " THEN LStrip(Tail(s)) ELSE s

RECURSIVE RStrip(_)
RStrip(s) ==
    IF s /= <<>> /\ s[Len(s)] = " " THEN RStrip(SubSeq(s, 1, Len(s) - 1)) ELSE s

Strip(s) == RStrip(LStrip(s))

----------------------------------------------------------------------------
(* Constants of the program.                                               *)

MACHINE_TYPES == {"Manual", "Semi-Automatica", "Automatica"}

BreakfastMinutes == 15
LunchMinutes == 60

ManualOrSemi == {"Manual", "Semi-Automatica"}

BaseSetupKeys == {"calibracion", "otros", "cambio_rollo", "cambio_producto"}
ToolSetupKeys == {"cambio_cuchillo", "cambio_perforador", "cambio_paquete"}
SetupKeys == BaseSetupKeys \cup ToolSetupKeys \cup {"empaque"}

----------------------------------------------------------------------------
(* Bounds of the model and the inputs the user can give.                   *)

MaxClock == 1     \* the clock runs from 0 to MaxClock
MaxCycle == 2     \* the cycle widgets take 1..MaxCycle seconds
MaxCount == 1     \* the event-count widgets take 0..MaxCount

\* what the user can type into a name field
NameInputs == {<<>>, <<" ">>, <<"a">>, <<"b", " ">>}

\* the values of the setup widgets: every widget at its minimum (0), or
\* every widget at the default the new-machine form shows; the forms are
\* filled with the defaults
SetupWidgetMin == [k \in SetupKeys |-> 0]
SetupWidgetDefault ==
    [calibracion |-> 10, otros |-> 30, cambio_rollo |-> 4, cambio_producto |-> 15,
     cambio_cuchillo |-> 30, cambio_perforador |-> 10, cambio_paquete |-> 5,
     empaque |-> 60]
SetupWidgetInputs == {SetupWidgetDefault}

\* units per minute and weight per unit (grams): the defaults of the form
UpmInputs == {48}
PesoInputs == {Frac(453, 10)}

\* cycle duration and productive time of the cycle (seconds), minimum 1
CycleInputs == 1..MaxCycle

----------------------------------------------------------------------------
(* Database functions.  Each returns what the Python function returns     *)
(* (ok), the message it shows (error) and the table afterwards (db).       *)
(* connOk is FALSE when the connection or the statement fails with a      *)
(* psycopg2.Error other than the primary-key violation.                   *)

get_all_machines_db(db, connOk) == IF connOk THEN db ELSE EmptyDict

\* a slip: INSERT ... ON CONFLICT DO UPDATE, an existing row is overwritten
AddUpsert(db, config, connOk) ==
    IF ~connOk THEN [ok |-> FALSE, error |-> "db_error", db |-> db]
    ELSE [ok |-> TRUE, error |-> "none",
          db |-> (config.name :>
                    [type |-> config.type,
                     setup_params |-> config.setup_params,
                     production_params |-> config.production_params,
                     created_at |-> config.created_at,
                     updated_at |-> None]) @@ db]

add_machine_db(db, config, connOk) ==
    IF ~connOk THEN [ok |-> FALSE, error |-> "db_error", db |-> db]
    ELSE IF config.name \in DOMAIN db
    THEN [ok |-> FALSE, error |-> "duplicate_name", db |-> db]
    ELSE [ok |-> TRUE, error |-> "none",
          db |-> db @@ (config.name :>
                    [type |-> config.type,
                     setup_params |-> config.setup_params,
                     production_params |-> config.production_params,
                     created_at |-> config.created_at,
                     updated_at |-> None])]

\* a slip: the UPDATE also sets created_at, from the config it is given
UpdateEscribeCreatedAt(db, original_name, config, connOk) ==
    IF ~connOk THEN [ok |-> FALSE, error |-> "db_error", db |-> db]
    ELSE IF original_name \notin DOMAIN db
    THEN [ok |-> TRUE, error |-> "none", db |-> db]
    ELSE IF config.name /= original_name /\ config.name \in DOMAIN db
    THEN [ok |-> FALSE, error |-> "db_error", db |-> db]
    ELSE [ok |-> TRUE, error |-> "none",
          db |-> Without(db, original_name) @@ (config.name :>
                    [type |-> config.type,
                     setup_params |-> config.setup_params,
                     production_params |-> config.production_params,
                     created_at |-> config.created_at,
                     updated_at |-> Some(config.updated_at)])]

update_machine_db(db, original_name, config, connOk) ==
    IF ~connOk THEN [ok |-> FALSE, error |-> "db_error", db |-> db]
    ELSE IF original_name \notin DOMAIN db
    THEN \* UPDATE ... WHERE name = original_name matches no row
         [ok |-> TRUE, error |-> "none", db |-> db]
    ELSE IF config.name /= original_name /\ config.name \in DOMAIN db
    THEN \* primary-key violation, caught as psycopg2.Error
         [ok |-> FALSE, error |-> "db_error", db |-> db]
    ELSE [ok |-> TRUE, error |-> "none",
          db |-> Without(db, original_name) @@ (config.name :>
                    [type |-> config.type,
                     setup_params |-> config.setup_params,
                     production_params |-> config.production_params,
                     created_at |-> db[original_name].created_at,
                     updated_at |-> Some(config.updated_at)])]

delete_machine_db(db, name, connOk) ==
    IF ~connOk THEN [ok |-> FALSE, error |-> "db_error", db |-> db]
    ELSE [ok |-> TRUE, error |-> "none", db |-> Without(db, name)]

----------------------------------------------------------------------------
(* The forms of machine_configuration_page.  w holds the values of the     *)
(* setup widgets; only the widgets the form shows for the type are read.   *)

new_setup_params(type, w) ==
    LET col1 == [k \in BaseSetupKeys |-> w[k]]
        col2 == IF type \in ManualOrSemi
                THEN [k \in ToolSetupKeys |-> w[k]] @@ col1
                ELSE col1
    IN  IF type = "Manual" THEN ("empaque" :> w["empaque"]) @@ col2 ELSE col2

\* a slip: the productive seconds are not clamped to the cycle
NewProductionSinClamp(type, upm, peso, cycle_seconds, productive_seconds) ==
    LET base == [unidades_por_minuto |-> upm, peso_por_unidad |-> peso]
    IN  IF type \in ManualOrSemi
        THEN base @@ [ciclo_total |-> cycle_seconds,
                      ciclo_productivo |-> productive_seconds,
                      ratio_productivo |->
                          IF cycle_seconds > 0
                          THEN Frac(productive_seconds, cycle_seconds) ELSE R(0)]
        ELSE base @@ [ratio_productivo |-> R(1), ciclo_total |-> 0,
                      ciclo_productivo |-> 0]

new_production_params(type, upm, peso, cycle_seconds, productive_seconds) ==
    LET base == [unidades_por_minuto |-> upm, peso_por_unidad |-> peso]
    IN  IF type \in ManualOrSemi
        THEN LET productive == IF productive_seconds > cycle_seconds
                               THEN cycle_seconds ELSE productive_seconds
             IN  base @@ [ciclo_total |-> cycle_seconds,
                          ciclo_productivo |-> productive,
                          ratio_productivo |->
                              IF cycle_seconds > 0
                              THEN Frac(productive, cycle_seconds) ELSE R(0)]
        ELSE base @@ [ratio_productivo |-> R(1), ciclo_total |-> 0,
                      ciclo_productivo |-> 0]

\* a slip: the edit form starts from a copy of the stored parameters and
\* does not remove the fields of the former type
EditSetupSinLimpiar(type, w, setup_config) ==
    LET start == setup_config
        col1 == [k \in BaseSetupKeys |-> w[k]] @@ start
        col2 == IF type \in ManualOrSemi
                THEN [k \in ToolSetupKeys |-> w[k]] @@ col1
                ELSE col1
    IN  IF type = "Manual" THEN ("empaque" :> w["empaque"]) @@ col2 ELSE col2

\* the edit form starts from an empty dict too; setup_config (the stored
\* parameters) only supplies the defaults the widgets show
edit_setup_params(type, w, setup_config) ==
    LET start == EmptyDict
        col1 == [k \in BaseSetupKeys |-> w[k]] @@ start
        col2 == IF type \in ManualOrSemi
                THEN [k \in ToolSetupKeys |-> w[k]] @@ col1
                ELSE [k \in DOMAIN col1 \ (ToolSetupKeys \cup {"empaque"}) |-> col1[k]]
    IN  IF type = "Manual" THEN ("empaque" :> w["empaque"]) @@ col2
        ELSE Without(col2, "empaque")

\* a slip: the cycle fields are stored whatever the type
EditProductionIgnoraTipo(type, upm, peso, edit_cycle_seconds, edit_productive_seconds) ==
    LET base == [unidades_por_minuto |-> upm, peso_por_unidad |-> peso]
        productive == IF edit_productive_seconds > edit_cycle_seconds
                      THEN edit_cycle_seconds ELSE edit_productive_seconds
    IN  base @@ [ciclo_total |-> edit_cycle_seconds,
                 ciclo_productivo |-> productive,
                 ratio_productivo |->
                     IF edit_cycle_seconds > 0
                     THEN Frac(productive, edit_cycle_seconds) ELSE R(0)]

\* a slip: the productive seconds are not clamped to the cycle
EditProductionSinClamp(type, upm, peso, edit_cycle_seconds, edit_productive_seconds) ==
    LET base == [unidades_por_minuto |-> upm, peso_por_unidad |-> peso]
    IN  IF type \in ManualOrSemi
        THEN base @@ [ciclo_total |-> edit_cycle_seconds,
                      ciclo_productivo |-> edit_productive_seconds,
                      ratio_productivo |->
                          IF edit_cycle_seconds > 0
                          THEN Frac(edit_productive_seconds, edit_cycle_seconds)
                          ELSE R(0)]
        ELSE base @@ [ratio_productivo |-> R(1), ciclo_total |-> 0,
                      ciclo_productivo |-> 0]

edit_production_params(type, upm, peso, edit_cycle_seconds, edit_productive_seconds) ==
    LET base == [unidades_por_minuto |-> upm, peso_por_unidad |-> peso]
    IN  IF type \in ManualOrSemi
        THEN LET productive == IF edit_productive_seconds > edit_cycle_seconds
                               THEN edit_cycle_seconds ELSE edit_productive_seconds
             IN  base @@ [ciclo_total |-> edit_cycle_seconds,
                          ciclo_productivo |-> productive,
                          ratio_productivo |->
                              IF edit_cycle_seconds > 0
                              THEN Frac(productive, edit_cycle_seconds) ELSE R(0)]
        ELSE base @@ [ratio_productivo |-> R(1), ciclo_total |-> 0,
                      ciclo_productivo |-> 0]

\* a slip: the edit section keeps the machine being edited when it is not
\* among the machines loaded
EditSectionSinOlvidar(editing, db, loadOk) == editing

\* the edit section at the end of every run of the configuration page:
\* the machine being edited is looked up again and forgotten when absent
EditSection(editing, db, loadOk) ==
    IF editing /= None /\ editing[1] \notin DOMAIN get_all_machines_db(db, loadOk)
    THEN None ELSE editing

\* the cycle widgets exist only for Manual and Semi-Automatica: for the
\* other type there is nothing to enter, and one pair stands for it
CycleWidgetsShown(type, cycle_seconds, productive_seconds) ==
    type \in ManualOrSemi \/ (cycle_seconds = 1 /\ productive_seconds = 1)

\* the outcomes of the edit section's load that can differ: with no machine
\* being edited the section does not load
LoadOutcomes(editing) == IF editing = None THEN {TRUE} ELSE BOOLEAN

NoResult == [outcome |-> "none"]
NoWrite == [op |-> "none"]

----------------------------------------------------------------------------
(* The calculation of production_calculator_page.                          *)

\* the keys of 'interrupciones' in the order the page inserts them
EventKeys ==
    <<"cambios_rollo", "cambios_producto", "cambios_cuchillo",
      "cambios_perforador", "cambios_paquete", "cambios_empaque">>

\* the event-count widgets the page shows for a machine type
EventKeysShown(type) ==
    {"cambios_rollo", "cambios_producto"}
    \cup (IF type \in ManualOrSemi
          THEN {"cambios_cuchillo", "cambios_perforador", "cambios_paquete"}
          ELSE {})
    \cup (IF type = "Manual" THEN {"cambios_empaque"} ELSE {})

\* the dict 'interrupciones': the counts n of the widgets shown
interrupciones_de(type, n) == [k \in EventKeysShown(type) |-> n[k]]

\* a line of the interruptions table: "<nombre> (<n>x)", or "<nombre>"
\* alone (n = 0) for the lines without a count
Label(nombre, n) == [nombre |-> nombre, n |-> n]

\* a slip: the packaging seconds are taken as minutes
TiempoPorEventoSinConvertir(key, setup_params) ==
    CASE key = "cambios_rollo" -> R(Get(setup_params, "cambio_rollo", 0))
      [] key = "cambios_producto" -> R(Get(setup_params, "cambio_producto", 0))
      [] key = "cambios_cuchillo" -> R(Get(setup_params, "cambio_cuchillo", 0))
      [] key = "cambios_perforador" -> R(Get(setup_params, "cambio_perforador", 0))
      [] key = "cambios_paquete" -> R(Get(setup_params, "cambio_paquete", 0))
      [] key = "cambios_empaque" -> R(Get(setup_params, "empaque", 0))
      [] OTHER -> R(0)

\* minutes per event of a kind
tiempo_por_evento(key, setup_params) ==
    CASE key = "cambios_rollo" -> R(Get(setup_params, "cambio_rollo", 0))
      [] key = "cambios_producto" -> R(Get(setup_params, "cambio_producto", 0))
      [] key = "cambios_cuchillo" -> R(Get(setup_params, "cambio_cuchillo", 0))
      [] key = "cambios_perforador" -> R(Get(setup_params, "cambio_perforador", 0))
      [] key = "cambios_paquete" -> R(Get(setup_params, "cambio_paquete", 0))
      [] key = "cambios_empaque" -> Frac(Get(setup_params, "empaque", 0), 60)
      [] OTHER -> R(0)

nombre_evento(key) ==
    CASE key = "cambios_rollo" -> "Cambios Rollo"
      [] key = "cambios_producto" -> "Cambios Producto"
      [] key = "cambios_cuchillo" -> "Cambios Cuchillo"
      [] key = "cambios_perforador" -> "Cambios Perforador"
      [] key = "cambios_paquete" -> "Cambios Paquete"
      [] key = "cambios_empaque" -> "Cambios Empaque"
      [] OTHER -> ""

\* the loop over interrupciones.items(), from the i-th key on; acc holds
\* interrupciones_variables and detalle_interrupciones_variables
RECURSIVE VariableLoop(_, _, _, _)
VariableLoop(i, interrupciones, setup_params, acc) ==
    IF i > Len(EventKeys) THEN acc
    ELSE LET key == EventKeys[i]
         IN  IF key \notin DOMAIN interrupciones
             THEN VariableLoop(i + 1, interrupciones, setup_params, acc)
             ELSE LET n_eventos == interrupciones[key]
                      tiempo_total_evento ==
                          RMul(R(n_eventos), tiempo_por_evento(key, setup_params))
                  IN  IF n_eventos > 0 /\ RPos(tiempo_total_evento)
                         /\ nombre_evento(key) /= ""
                      THEN VariableLoop(i + 1, interrupciones, setup_params,
                               [interrupciones_variables |->
                                    RAdd(acc.interrupciones_variables, tiempo_total_evento),
                                detalle |->
                                    (Label(nombre_evento(key), n_eventos)
                                        :> tiempo_total_evento) @@ acc.detalle])
                      ELSE VariableLoop(i + 1, interrupciones, setup_params, acc)

RECURSIVE SumOver(_, _)
SumOver(d, keys) ==
    IF keys = {} THEN R(0)
    ELSE LET k == CHOOSE x \in keys : TRUE
         IN  RAdd(d[k], SumOver(d, keys \ {k}))

\* a slip: '=' for '+=', the total row holds one row's time only
TablaTotalSinAcumular(interrupciones_dict, turno_minutos) ==
    LET shown == {t \in DOMAIN interrupciones_dict : RPos(interrupciones_dict[t])}
    IN  [rows |-> [t \in shown |-> interrupciones_dict[t]],
         total_interrupcion_min |->
             IF shown = {} THEN R(0)
             ELSE interrupciones_dict[CHOOSE t \in shown : TRUE]]

\* the rows shown (time > 0) and the total row
render_interruptions_table(interrupciones_dict, turno_minutos) ==
    LET shown == {t \in DOMAIN interrupciones_dict : RPos(interrupciones_dict[t])}
    IN  [rows |-> [t \in shown |-> interrupciones_dict[t]],
         total_interrupcion_min |-> SumOver(interrupciones_dict, shown)]

\* the format ':.2f' of the tables, for a value >= 0: the number of
\* hundredths nearest to the value, the even one when two are as near
Centesimas(q) ==
    LET scaled == q[1] * 100
        floor == scaled \div q[2]
        twice_rest == 2 * (scaled % q[2])
    IN  IF twice_rest > q[2] THEN floor + 1
        ELSE IF twice_rest < q[2] THEN floor
        ELSE IF floor % 2 = 0 THEN floor ELSE floor + 1

render_analysis_table(turno_minutos, tiempo_productivo, tiempo_perdido, eficiencia) ==
    [turno_minutos |-> turno_minutos,
     tiempo_productivo |-> tiempo_productivo,
     tiempo_perdido |-> tiempo_perdido,
     eficiencia_percent |-> IF eficiencia[1] /= 0 THEN eficiencia ELSE R(0)]

\* a slip: the breakfast counted like a second lunch
ComidasDesayunoLargo(desayuno, almuerzo) ==
    (IF desayuno THEN LunchMinutes ELSE 0) + (IF almuerzo THEN LunchMinutes ELSE 0)

tiempo_comidas_de(desayuno, almuerzo) ==
    (IF desayuno THEN BreakfastMinutes ELSE 0) + (IF almuerzo THEN LunchMinutes ELSE 0)

\* a slip: the meals are left out of the subtraction
NetoSinComidas(turno_minutos, interrupciones_fijas, tiempo_comidas, interrupciones_variables) ==
    RSub(turno_minutos, RAdd(R(interrupciones_fijas), interrupciones_variables))

tiempo_neto_disponible_de(turno_minutos, interrupciones_fijas, tiempo_comidas, interrupciones_variables) ==
    RSub(turno_minutos,
         RAdd(R(interrupciones_fijas + tiempo_comidas), interrupciones_variables))

\* a slip: '<' for '<='
ExcedenEstricto(tiempo_neto_disponible) == RLt(tiempo_neto_disponible, R(0))

\* the test 'tiempo_neto_disponible <= 0'
interrupciones_exceden(tiempo_neto_disponible) == ~RPos(tiempo_neto_disponible)

\* a slip: the ratio itself for its complement
DetenidoSinComplemento(tiempo_neto_disponible, ratio_productivo) ==
    RMul(tiempo_neto_disponible, ratio_productivo)

tiempo_detenido_ciclos_de(tiempo_neto_disponible, ratio_productivo) ==
    RMul(tiempo_neto_disponible, RSub(R(1), ratio_productivo))

\* a slip: grams are not converted to kilograms
PesoSinDividir(unidades_estimadas, peso_por_unidad_g) ==
    IF RPos(peso_por_unidad_g) THEN RMul(unidades_estimadas, peso_por_unidad_g)
    ELSE R(0)

peso_total_kg_de(unidades_estimadas, peso_por_unidad_g) ==
    IF RPos(peso_por_unidad_g)
    THEN RDiv(RMul(unidades_estimadas, peso_por_unidad_g), R(1000))
    ELSE R(0)

\* the try block of the page for the selected machine and the widget values
\* entrada = [turno_horas, desayuno, almuerzo, n]
Calculo(selected_machine_name, machine_config, entrada) ==
    LET setup_params == machine_config.setup_params
        production_params == machine_config.production_params
        interrupciones == interrupciones_de(machine_config.type, entrada.n)
        turno_minutos == RMul(entrada.turno_horas, R(60))
        calibracion == Get(setup_params, "calibracion", 0)
        otros == Get(setup_params, "otros", 0)
        interrupciones_fijas == calibracion + otros
        tiempo_comidas == tiempo_comidas_de(entrada.desayuno, entrada.almuerzo)
        loop == VariableLoop(1, interrupciones, setup_params,
                    [interrupciones_variables |-> R(0), detalle |-> EmptyDict])
        interrupciones_variables == loop.interrupciones_variables
        total_interrupciones ==
            RAdd(R(interrupciones_fijas + tiempo_comidas), interrupciones_variables)
        tiempo_neto_disponible ==
            tiempo_neto_disponible_de(turno_minutos, interrupciones_fijas,
                                      tiempo_comidas, interrupciones_variables)
        fixed_lines ==
            (Label("Calibracion Fija", 0) :> R(calibracion))
            @@ (Label("Otros Fijos", 0) :> R(otros))
            @@ (Label("Comidas", 0) :> R(tiempo_comidas))
        common ==
            [maquina |-> selected_machine_name,
             entrada |-> entrada,
             turno_minutos |-> turno_minutos,
             interrupciones_fijas |-> interrupciones_fijas,
             tiempo_comidas |-> tiempo_comidas,
             interrupciones_variables |-> interrupciones_variables,
             detalle_interrupciones_variables |-> loop.detalle,
             tiempo_neto_disponible |-> tiempo_neto_disponible]
    IN  IF interrupciones_exceden(tiempo_neto_disponible)
        THEN LET interrupciones_dict_error == fixed_lines @@ loop.detalle
             IN  [outcome |-> "exceeds",
                  analysis |-> render_analysis_table(turno_minutos, R(0),
                                   total_interrupciones, R(0)),
                  interrupciones_dict |-> interrupciones_dict_error,
                  interruptions_table |->
                      render_interruptions_table(interrupciones_dict_error,
                                                 turno_minutos),
                  metrics |-> EmptyDict] @@ common
        ELSE LET ratio_productivo == Get(production_params, "ratio_productivo", R(1))
                 tiempo_efectivo_produccion ==
                     RMul(tiempo_neto_disponible, ratio_productivo)
                 tiempo_detenido_ciclos ==
                     tiempo_detenido_ciclos_de(tiempo_neto_disponible, ratio_productivo)
                 unidades_por_minuto == Get(production_params, "unidades_por_minuto", 0)
                 peso_por_unidad_g == Get(production_params, "peso_por_unidad", R(0))
                 unidades_estimadas ==
                     RMul(R(unidades_por_minuto), tiempo_efectivo_produccion)
                 peso_total_kg == peso_total_kg_de(unidades_estimadas, peso_por_unidad_g)
                 eficiencia_oee ==
                     IF RPos(turno_minutos)
                     THEN RMul(RDiv(tiempo_efectivo_produccion, turno_minutos), R(100))
                     ELSE R(0)
                 tiempo_perdido_total == RSub(turno_minutos, tiempo_efectivo_produccion)
                 interrupciones_dict ==
                     IF machine_config.type \in ManualOrSemi
                        /\ RPos(tiempo_detenido_ciclos)
                     THEN (Label("Paradas por Ciclo", 0) :> tiempo_detenido_ciclos)
                          @@ fixed_lines @@ loop.detalle
                     ELSE fixed_lines @@ loop.detalle
             IN  [outcome |-> "ok",
                  tiempo_efectivo_produccion |-> tiempo_efectivo_produccion,
                  tiempo_detenido_ciclos |-> tiempo_detenido_ciclos,
                  eficiencia_oee |-> eficiencia_oee,
                  analysis |-> render_analysis_table(turno_minutos,
                                   tiempo_efectivo_produccion, tiempo_perdido_total,
                                   eficiencia_oee),
                  interrupciones_dict |-> interrupciones_dict,
                  interruptions_table |->
                      render_interruptions_table(interrupciones_dict, turno_minutos),
                  metrics |->
                      [m \in {"Unidades Estimadas", "Peso Total Estimado"} |->
                          IF m = "Unidades Estimadas" THEN unidades_estimadas
                          ELSE peso_total_kg]] @@ common

\* what the user can enter on the calculator page
CountInputs == 0..MaxCount
ShiftInput(turno_horas, desayuno, almuerzo, n) ==
    [turno_horas |-> turno_horas, desayuno |-> desayuno, almuerzo |-> almuerzo, n |-> n]

\* 1 h or 8 h, both meals or none, no event or MaxCount events of each kind
FormShiftInputs ==
    {ShiftInput(h, m, m, [k \in Range(EventKeys) |-> c]) :
        h \in {R(1), R(8)}, m \in BOOLEAN, c \in {0, MaxCount}}

\* 1 h or 8 h, any meals, any counts
EngineShiftInputs ==
    {ShiftInput(h, d, a, n) :
        h \in {R(1), R(8)}, d \in BOOLEAN, a \in BOOLEAN,
        n \in [Range(EventKeys) -> CountInputs]}

\* a slip: the page remembers the selected machine as the one being edited
CalculatorRecuerdaSeleccion(Inputs) ==
    \E connOk \in BOOLEAN :
        LET available_machines == get_all_machines_db(machines, connOk)
        IN  /\ current_page' = "calculator"
            /\ last' = NoWrite
            /\ IF DOMAIN available_machines = {}
               THEN /\ result' = [outcome |-> "no_machines"]
                    /\ UNCHANGED editing_machine
               ELSE \E selected_machine_name \in DOMAIN available_machines,
                       entrada \in Inputs :
                        /\ result' = Calculo(selected_machine_name,
                                         available_machines[selected_machine_name],
                                         entrada)
                        /\ editing_machine' = Some(selected_machine_name)
            /\ UNCHANGED <<machines, now>>

\* a run of the calculator page: the machines are loaded, one is selected,
\* the widgets are read and the result is rendered
production_calculator_page(Inputs) ==
    \E connOk \in BOOLEAN :
        LET available_machines == get_all_machines_db(machines, connOk)
        IN  /\ current_page' = "calculator"
            /\ last' = NoWrite
            /\ IF DOMAIN available_machines = {}
               THEN result' = [outcome |-> "no_machines"]
               ELSE \E selected_machine_name \in DOMAIN available_machines,
                       entrada \in Inputs :
                        result' = Calculo(selected_machine_name,
                                      available_machines[selected_machine_name],
                                      entrada)
            /\ UNCHANGED <<machines, editing_machine, now>>

Calculate == production_calculator_page(FormShiftInputs)

----------------------------------------------------------------------------
(* Runs of the configuration page, one per thing the user can do on it.    *)

\* the sidebar radio selects the configuration page
OpenConfiguration ==
    \E loadOk \in LoadOutcomes(editing_machine) :
        /\ current_page' = "configuration"
        /\ editing_machine' = EditSection(editing_machine, machines, loadOk)
        /\ last' = NoWrite
        /\ result' = NoResult
        /\ UNCHANGED <<machines, now>>

\* button "Guardar Nueva Maquina"
SaveNewMachine ==
    /\ current_page = "configuration"
    /\ \E new_machine_name \in NameInputs, loadOk \in LoadOutcomes(editing_machine) :
        LET machine_name == Strip(new_machine_name)
        IN  IF machine_name = <<>>
            THEN /\ last' = [op |-> "add", name |-> machine_name, ok |-> FALSE,
                             error |-> "name_required"]
                 /\ editing_machine' = EditSection(editing_machine, machines, loadOk)
                 /\ UNCHANGED machines
            ELSE \/ \* the connection fails: add_machine_db returns before it
                    \* reads anything of the config but the name it reports
                    LET r == add_machine_db(machines, [name |-> machine_name], FALSE)
                    IN  /\ machines' = r.db
                        /\ last' = [op |-> "add", name |-> machine_name,
                                    ok |-> r.ok, error |-> r.error]
                        /\ editing_machine' =
                               EditSection(editing_machine, r.db, loadOk)
                 \/ \E new_machine_type \in MACHINE_TYPES, w \in SetupWidgetInputs,
                       upm \in UpmInputs, peso \in PesoInputs,
                       cycle_seconds \in CycleInputs,
                       productive_seconds \in CycleInputs :
                       /\ CycleWidgetsShown(new_machine_type, cycle_seconds,
                                            productive_seconds)
                       /\ LET machine_config_to_add ==
                                  [name |-> machine_name,
                                   type |-> new_machine_type,
                                   setup_params |->
                                       new_setup_params(new_machine_type, w),
                                   production_params |->
                                       new_production_params(new_machine_type, upm,
                                           peso, cycle_seconds, productive_seconds),
                                   created_at |-> now]
                              r == add_machine_db(machines, machine_config_to_add, TRUE)
                          IN  /\ machines' = r.db
                              /\ last' = [op |-> "add", name |-> machine_name,
                                          ok |-> r.ok, error |-> r.error]
                              /\ editing_machine' =
                                     EditSection(editing_machine, r.db, loadOk)
    /\ UNCHANGED <<current_page, now, result>>

\* button "Eliminar" of a listed machine
DeleteMachine ==
    /\ current_page = "configuration"
    /\ \E name \in DOMAIN machines, connOk \in BOOLEAN,
          loadOk \in LoadOutcomes(editing_machine) :
        LET r == delete_machine_db(machines, name, connOk)
        IN  /\ machines' = r.db
            /\ last' = [op |-> "delete", name |-> name, ok |-> r.ok,
                        error |-> r.error]
            /\ editing_machine' = EditSection(editing_machine, r.db, loadOk)
    /\ UNCHANGED <<current_page, now, result>>

\* button "Editar" of a listed machine
EditMachine ==
    /\ current_page = "configuration"
    /\ \E name \in DOMAIN machines, loadOk \in BOOLEAN :
        editing_machine' = EditSection(Some(name), machines, loadOk)
    /\ last' = NoWrite
    /\ UNCHANGED <<machines, current_page, now, result>>

\* button "Guardar Cambios" of the edit form
SaveEditMachine ==
    /\ current_page = "configuration"
    /\ editing_machine /= None
    /\ editing_machine[1] \in DOMAIN machines
    /\ \E loadOk \in BOOLEAN, edit_name \in NameInputs :
        LET machine_to_edit_name == editing_machine[1]
            all_machines_for_edit == get_all_machines_db(machines, loadOk)
            new_name == Strip(edit_name)
        IN  IF machine_to_edit_name \notin DOMAIN all_machines_for_edit
            THEN /\ editing_machine' = None
                 /\ last' = NoWrite
                 /\ UNCHANGED machines
            ELSE IF new_name = <<>>
            THEN /\ last' = [op |-> "update", name |-> machine_to_edit_name,
                             new_name |-> new_name,
                             ok |-> FALSE, error |-> "name_required"]
                 /\ UNCHANGED <<machines, editing_machine>>
            ELSE \/ \* the connection fails: update_machine_db returns before it
                    \* reads anything of the config
                    LET r == update_machine_db(machines, machine_to_edit_name,
                                               [name |-> new_name], FALSE)
                    IN  /\ machines' = r.db
                        /\ last' = [op |-> "update", name |-> machine_to_edit_name,
                                    new_name |-> new_name,
                                    ok |-> r.ok, error |-> r.error]
                        /\ editing_machine' = IF r.ok THEN None ELSE editing_machine
                 \/ \E edit_type \in MACHINE_TYPES, w \in SetupWidgetInputs,
                       upm \in UpmInputs, peso \in PesoInputs,
                       edit_cycle_seconds \in CycleInputs,
                       edit_productive_seconds \in CycleInputs :
                       /\ CycleWidgetsShown(edit_type, edit_cycle_seconds,
                                            edit_productive_seconds)
                       /\ LET machine_config ==
                                  all_machines_for_edit[machine_to_edit_name]
                              updated_config ==
                                  [name |-> new_name,
                                   type |-> edit_type,
                                   setup_params |->
                                       edit_setup_params(edit_type, w,
                                                         machine_config.setup_params),
                                   production_params |->
                                       edit_production_params(edit_type, upm, peso,
                                           edit_cycle_seconds, edit_productive_seconds),
                                   created_at |-> machine_config.created_at,
                                   updated_at |-> now]
                              r == update_machine_db(machines, machine_to_edit_name,
                                                     updated_config, TRUE)
                          IN  /\ machines' = r.db
                              /\ last' = [op |-> "update",
                                          name |-> machine_to_edit_name,
                                          new_name |-> new_name,
                                          ok |-> r.ok, error |-> r.error]
                              /\ editing_machine' =
                                     IF r.ok THEN None ELSE editing_machine
    /\ UNCHANGED <<current_page, now, result>>

\* button "Cancelar Edicion" of the edit form
CancelEdit ==
    /\ current_page = "configuration"
    /\ editing_machine /= None
    /\ editing_machine[1] \in DOMAIN machines
    /\ editing_machine' = None
    /\ last' = NoWrite
    /\ UNCHANGED <<machines, current_page, now, result>>

\* time passes
Tick ==
    /\ now < MaxClock
    /\ now' = now + 1
    /\ UNCHANGED <<machines, editing_machine, current_page, last, result>>

Init ==
    /\ machines = EmptyDict
    /\ editing_machine = None
    /\ current_page = "calculator"
    /\ now = 0
    /\ last = NoWrite
    /\ result = NoResult

Next ==
    \/ OpenConfiguration
    \/ SaveNewMachine
    \/ DeleteMachine
    \/ EditMachine
    \/ SaveEditMachine
    \/ CancelEdit
    \/ Calculate

Spec == Init /\ [][Next]_vars

----------------------------------------------------------------------------
(* The calculation alone, on every row the table can hand to it: rows     *)
(* written by the forms, and rows of an older schema that lack a field.    *)

EngineSetups(type) ==
    LET full == {new_setup_params(type, w) : w \in {SetupWidgetMin, SetupWidgetDefault}}
        dflt == new_setup_params(type, SetupWidgetDefault)
    IN  full \cup {Without(dflt, k) : k \in DOMAIN dflt}

EngineProductions(type) ==
    LET upm == 48
        peso == Frac(453, 10)
        dflt == new_production_params(type, upm, peso, 32, 27)
    IN  {dflt,
         new_production_params(type, upm, peso, 1, 1),
         new_production_params(type, upm, peso, 0, 0),
         new_production_params(type, upm, R(0), 32, 27),
         Without(dflt, "ratio_productivo"),
         Without(dflt, "unidades_por_minuto"),
         Without(dflt, "peso_por_unidad")}

EngineRows ==
    UNION {{[type |-> type, setup_params |-> sp, production_params |-> pp,
             created_at |-> 0, updated_at |-> None] :
               sp \in EngineSetups(type), pp \in EngineProductions(type)} :
           type \in MACHINE_TYPES}

InitEngine ==
    /\ machines \in {(<<"a">> :> row) : row \in EngineRows}
    /\ editing_machine = None
    /\ current_page = "calculator"
    /\ now = 0
    /\ last = NoWrite
    /\ result = NoResult

\* one run of the calculator page on the row
EngineCalculate ==
    /\ result = NoResult
    /\ production_calculator_page(EngineShiftInputs)

NextEngine == EngineCalculate
SpecEngine == InitEngine /\ [][NextEngine]_vars

----------------------------------------------------------------------------
(* The database functions as the page handlers of any number of browser    *)
(* sessions call them on the one table they share.  Between the load of a  *)
(* session's run (get_all_machines_db, lines 340, 408) and its write       *)
(* another session's write can intervene, so a write can name a row that   *)
(* is no longer in the table, or a name that has been taken meanwhile.     *)
(* Saves and deletes are those of any session; the edit form is the one of *)
(* one session.                                                            *)
(* The clock runs: each timestamp is the second at which the handler ran.  *)

GatewayNames == {<<"a">>, <<"b">>, <<"c">>}

\* what the forms hand over for a machine of each type, the widgets at
\* their defaults and a cycle of one second
GatewayProfiles ==
    {[type |-> type,
      setup_params |-> new_setup_params(type, SetupWidgetDefault),
      production_params |-> new_production_params(type, 48, Frac(453, 10), 1, 1)] :
        type \in MACHINE_TYPES}

\* add_machine_db as "Guardar Nueva Maquina" calls it; the sessions leave
\* one of the names free, for a rename
GatewaySave ==
    /\ Cardinality(DOMAIN machines) + 1 < Cardinality(GatewayNames)
    /\ \E name \in GatewayNames, p \in GatewayProfiles, connOk \in BOOLEAN :
        LET machine_config_to_add ==
                [name |-> name, type |-> p.type, setup_params |-> p.setup_params,
                 production_params |-> p.production_params, created_at |-> now]
            r == add_machine_db(machines, machine_config_to_add, connOk)
        IN  /\ machines' = r.db
            /\ last' = [op |-> "add", name |-> name, ok |-> r.ok, error |-> r.error]
    /\ UNCHANGED <<editing_machine, current_page, now, result>>

\* "Editar" of a listed machine: the edit form is opened for it
GatewayEdit ==
    /\ \E name \in DOMAIN machines : editing_machine' = Some(name)
    /\ last' = NoWrite
    /\ UNCHANGED <<machines, current_page, now, result>>

\* update_machine_db as "Guardar Cambios" calls it for the machine whose
\* edit form is open: created_at is the one of the row the run loaded (any
\* earlier second), updated_at the clock; the form is closed on success
GatewayUpdate ==
    /\ editing_machine /= None
    /\ \E new_name \in GatewayNames, p \in GatewayProfiles, created_at \in 0..now,
          connOk \in BOOLEAN :
        LET machine_to_edit_name == editing_machine[1]
            updated_config ==
                [name |-> new_name, type |-> p.type, setup_params |-> p.setup_params,
                 production_params |-> p.production_params,
                 created_at |-> created_at, updated_at |-> now]
            r == update_machine_db(machines, machine_to_edit_name, updated_config,
                                   connOk)
        IN  /\ machines' = r.db
            /\ last' = [op |-> "update", name |-> machine_to_edit_name,
                        new_name |-> new_name, ok |-> r.ok, error |-> r.error]
            /\ editing_machine' = IF r.ok THEN None ELSE editing_machine
    /\ UNCHANGED <<current_page, now, result>>

\* the rows a run can have listed with their "Eliminar" button: the rows of
\* the table, and the row another session's write has just removed or
\* renamed
ListedForDelete ==
    DOMAIN machines
    \cup (IF last.op \in {"delete", "update"} /\ last.ok THEN {last.name} ELSE {})

\* delete_machine_db as "Eliminar" calls it
GatewayDelete ==
    /\ \E name \in ListedForDelete, connOk \in BOOLEAN :
        LET r == delete_machine_db(machines, name, connOk)
        IN  /\ machines' = r.db
            /\ last' = [op |-> "delete", name |-> name, ok |-> r.ok,
                        error |-> r.error]
    /\ UNCHANGED <<editing_machine, current_page, now, result>>

NextGateway ==
    \/ GatewaySave
    \/ GatewayEdit
    \/ GatewayUpdate
    \/ GatewayDelete
    \/ Tick

SpecGateway == Init /\ [][NextGateway]_vars

----------------------------------------------------------------------------
(* Properties.                                                             *)

\* the last run of the calculator page computed something for a machine
Calculated == result.outcome \in {"ok", "exceeds"}

\* the row the result was computed for
Row == machines[result.maquina]

\* the value of a setup field, a missing field counting as 0
Field(setup_params, k) == IF k \in DOMAIN setup_params THEN setup_params[k] ELSE 0

\* C1: when the net available time is <= 0 the run ends in the 'exceeds'
\* outcome: productive time 0 and efficiency 0 in the time table, the lines
\* calibration, other fixed, meals and every variable line item in the
\* interruptions detail, and no units or weight.
C1_ExceedsShift ==
    (Calculated /\ RLe(result.tiempo_neto_disponible, R(0))) =>
        /\ result.outcome = "exceeds"
        /\ result.analysis.tiempo_productivo = R(0)
        /\ result.analysis.eficiencia_percent = R(0)
        /\ result.analysis.turno_minutos = RMul(result.entrada.turno_horas, R(60))
        /\ LET d == result.interrupciones_dict
               sp == Row.setup_params
           IN  /\ {Label("Calibracion Fija", 0), Label("Otros Fijos", 0),
                   Label("Comidas", 0)} \subseteq DOMAIN d
               /\ d[Label("Calibracion Fija", 0)] = R(Field(sp, "calibracion"))
               /\ d[Label("Otros Fijos", 0)] = R(Field(sp, "otros"))
               /\ d[Label("Comidas", 0)] = R(result.tiempo_comidas)
               /\ \A l \in DOMAIN result.detalle_interrupciones_variables :
                      l \in DOMAIN d
                      /\ d[l] = result.detalle_interrupciones_variables[l]
        /\ DOMAIN result.metrics = {}

\* C1 witness: the interruptions equal the shift exactly (net time 0), with
\* a variable line item in the detail
C1_Witness ==
    /\ Calculated
    /\ result.tiempo_neto_disponible = R(0)
    /\ result.outcome = "exceeds"
    /\ result.detalle_interrupciones_variables /= EmptyDict

\* C2: net available minutes = shift hours * 60 - (calibration + other fixed
\* + meals + variable interruption minutes), meals = 15 for breakfast + 60
\* for lunch, a missing calibration or other-fixed field counting as 0.
C2_NetAvailable ==
    Calculated =>
        LET sp == Row.setup_params
            e == result.entrada
            meals == (IF e.desayuno THEN 15 ELSE 0) + (IF e.almuerzo THEN 60 ELSE 0)
            fixed == Field(sp, "calibracion") + Field(sp, "otros")
        IN  /\ result.tiempo_comidas = meals
            /\ result.interrupciones_fijas = fixed
            /\ result.tiempo_neto_disponible =
                   RSub(RMul(e.turno_horas, R(60)),
                        RAdd(R(fixed + meals), result.interrupciones_variables))

\* C2 witness: a row without the calibration field, both meals, and some
\* variable interruption
C2_Witness ==
    /\ Calculated
    /\ "calibracion" \notin DOMAIN Row.setup_params
    /\ Row.setup_params["otros"] > 0
    /\ result.entrada.desayuno /\ result.entrada.almuerzo
    /\ RPos(result.interrupciones_variables)
    /\ RPos(result.tiempo_neto_disponible)

\* C3: for every row the forms can put in the table and every shift input,
\* when the net available time is > 0 the efficiency is computed and lies
\* in [0, 100].
C3_EfficiencyRange ==
    (Calculated /\ RPos(result.tiempo_neto_disponible)) =>
        /\ result.outcome = "ok"
        /\ RLe(R(0), result.eficiencia_oee)
        /\ RLe(result.eficiencia_oee, R(100))
        /\ result.analysis.eficiencia_percent = result.eficiencia_oee

\* C3 witness: an efficiency within (0, 100) for a machine that was edited
C3_Witness ==
    /\ Calculated
    /\ result.outcome = "ok"
    /\ Row.updated_at /= None
    /\ Row.production_params.ratio_productivo = Frac(1, 2)
    /\ RLt(R(0), result.eficiencia_oee)
    /\ RLt(result.eficiencia_oee, R(100))

\* C4: when the net available time is > 0, productive + cycle-stopped = net,
\* productive = net * ratio and cycle-stopped = net * (1 - ratio).
C4_ProductivePlusStopped ==
    (Calculated /\ RPos(result.tiempo_neto_disponible)) =>
        LET pp == Row.production_params
            ratio == IF "ratio_productivo" \in DOMAIN pp
                     THEN pp.ratio_productivo ELSE R(1)
            net == result.tiempo_neto_disponible
        IN  /\ result.outcome = "ok"
            /\ RAdd(result.tiempo_efectivo_produccion, result.tiempo_detenido_ciclos)
                   = net
            /\ result.tiempo_efectivo_produccion = RMul(net, ratio)
            /\ result.tiempo_detenido_ciclos = RSub(net, RMul(net, ratio))

\* C4 witness: a ratio strictly between 0 and 1, so that both parts are > 0
C4_Witness ==
    /\ Calculated
    /\ result.outcome = "ok"
    /\ RPos(result.tiempo_efectivo_produccion)
    /\ RPos(result.tiempo_detenido_ciclos)

\* C5: for a row with units per minute and unit weight, the estimated units
\* and weight are >= 0, both 0 when the productive time is 0, units = units
\* per minute * productive minutes and weight = units * grams / 1000 (0 when
\* the unit weight is <= 0).
C5_UnitsAndWeight ==
    (Calculated /\ result.outcome = "ok"
       /\ {"unidades_por_minuto", "peso_por_unidad"}
              \subseteq DOMAIN Row.production_params) =>
        LET pp == Row.production_params
            units == result.metrics["Unidades Estimadas"]
            kg == result.metrics["Peso Total Estimado"]
            productive == result.tiempo_efectivo_produccion
        IN  /\ RLe(R(0), units)
            /\ RLe(R(0), kg)
            /\ (productive = R(0) => units = R(0) /\ kg = R(0))
            /\ units = RMul(R(pp.unidades_por_minuto), productive)
            /\ kg = IF RLe(pp.peso_por_unidad, R(0)) THEN R(0)
                    ELSE Frac(units[1] * pp.peso_por_unidad[1],
                              units[2] * pp.peso_por_unidad[2] * 1000)

\* C5 witness: units and weight > 0
C5_Witness ==
    /\ Calculated
    /\ result.outcome = "ok"
    /\ {"unidades_por_minuto", "peso_por_unidad"} \subseteq DOMAIN Row.production_params
    /\ RPos(result.metrics["Unidades Estimadas"])
    /\ RPos(result.metrics["Peso Total Estimado"])

\* the case of C5 with no productive time: units and weight 0
C5_ZeroCase ==
    /\ Calculated
    /\ result.outcome = "ok"
    /\ {"unidades_por_minuto", "peso_por_unidad"} \subseteq DOMAIN Row.production_params
    /\ result.tiempo_efectivo_produccion = R(0)

\* the setup field and the name of an event kind
KindField ==
    [cambios_rollo |-> "cambio_rollo", cambios_producto |-> "cambio_producto",
     cambios_cuchillo |-> "cambio_cuchillo", cambios_perforador |-> "cambio_perforador",
     cambios_paquete |-> "cambio_paquete", cambios_empaque |-> "empaque"]
KindName ==
    [cambios_rollo |-> "Cambios Rollo", cambios_producto |-> "Cambios Producto",
     cambios_cuchillo |-> "Cambios Cuchillo", cambios_perforador |-> "Cambios Perforador",
     cambios_paquete |-> "Cambios Paquete", cambios_empaque |-> "Cambios Empaque"]

\* the kinds offered for a type: roll and product always, knife, punch and
\* package for Manual and Semi-Automatica, packaging for Manual
KindsOffered(type) ==
    {k \in DOMAIN KindField :
        \/ k \in {"cambios_rollo", "cambios_producto"}
        \/ k \in {"cambios_cuchillo", "cambios_perforador", "cambios_paquete"}
             /\ type \in {"Manual", "Semi-Automatica"}
        \/ k = "cambios_empaque" /\ type = "Manual"}

\* count * duration of a kind, the packaging seconds divided by 60
KindMinutes(k) ==
    LET f == Field(Row.setup_params, KindField[k])
    IN  IF k = "cambios_empaque" THEN Frac(result.entrada.n[k] * f, 60)
        ELSE R(result.entrada.n[k] * f)

\* C6: the variable interruption minutes are the sum over the kinds offered
\* for the type of count * duration; a line "<name> (<count>x)" exists for a
\* kind exactly when its count * duration is > 0 and holds that product, and
\* the lines sum to the variable interruption minutes.
C6_VariableInterruptions ==
    Calculated =>
        LET kinds == KindsOffered(Row.type)
            minutes == [k \in kinds |-> KindMinutes(k)]
            lines == result.detalle_interrupciones_variables
        IN  /\ result.interrupciones_variables = SumOver(minutes, kinds)
            /\ DOMAIN lines =
                   {Label(KindName[k], result.entrada.n[k]) :
                        k \in {x \in kinds : RPos(minutes[x])}}
            /\ \A k \in kinds :
                   RPos(minutes[k]) =>
                       lines[Label(KindName[k], result.entrada.n[k])] = minutes[k]
            /\ SumOver(lines, DOMAIN lines) = result.interrupciones_variables

\* C6 witness: a Manual machine with packaging and roll events counted, and
\* a kind that is counted but takes no time
C6_Witness ==
    /\ Calculated
    /\ Row.type = "Manual"
    /\ RPos(KindMinutes("cambios_empaque"))
    /\ RPos(KindMinutes("cambios_rollo"))
    /\ \E k \in KindsOffered(Row.type) :
           result.entrada.n[k] > 0 /\ KindMinutes(k) = R(0)

\* C7: every stored Automatica row has ratio 1.0 and cycle fields 0, and a
\* result for an Automatica row never has the line "Paradas por Ciclo"; the
\* line is there only for Manual and Semi-Automatica and only when the
\* cycle-stopped time is > 0.
C7_AutomaticNoCycleStoppage ==
    /\ \A name \in DOMAIN machines :
           machines[name].type = "Automatica" =>
               /\ machines[name].production_params.ratio_productivo = R(1)
               /\ machines[name].production_params.ciclo_total = 0
               /\ machines[name].production_params.ciclo_productivo = 0
    /\ (Calculated /\ Label("Paradas por Ciclo", 0) \in DOMAIN result.interrupciones_dict)
           => /\ Row.type \in {"Manual", "Semi-Automatica"}
              /\ result.outcome = "ok"
              /\ RPos(result.tiempo_detenido_ciclos)
              /\ result.interrupciones_dict[Label("Paradas por Ciclo", 0)]
                     = result.tiempo_detenido_ciclos

\* C7 witness: a result for an Automatica row that was edited, next to a
\* Manual or Semi-Automatica row whose cycle is not fully productive
C7_Witness ==
    /\ Calculated
    /\ result.outcome = "ok"
    /\ Row.type = "Automatica"
    /\ Row.updated_at /= None
    /\ \E name \in DOMAIN machines :
           /\ machines[name].type /= "Automatica"
           /\ machines[name].production_params.ratio_productivo = Frac(1, 2)

\* the case of C7 where the line is shown
C7_LineShown ==
    /\ Calculated
    /\ Label("Paradas por Ciclo", 0) \in DOMAIN result.interrupciones_dict

\* C8: every stored row has productive cycle seconds <= total cycle seconds
\* and a ratio in [0, 1]; for Manual and Semi-Automatica the ratio is
\* productive / total (0 when total is 0).
C8_ClampedRatio ==
    \A name \in DOMAIN machines :
        LET pp == machines[name].production_params
        IN  /\ pp.ciclo_productivo <= pp.ciclo_total
            /\ RLe(R(0), pp.ratio_productivo)
            /\ RLe(pp.ratio_productivo, R(1))
            /\ machines[name].type \in {"Manual", "Semi-Automatica"} =>
                   pp.ratio_productivo =
                       IF pp.ciclo_total = 0 THEN R(0)
                       ELSE Frac(pp.ciclo_productivo, pp.ciclo_total)

\* C8 witness: an edited row and a new row, both with a cycle, one fully
\* productive (as a clamped entry is) and one not
C8_Witness ==
    \E a, b \in DOMAIN machines :
        /\ machines[a].updated_at /= None
        /\ machines[a].production_params.ciclo_total = 1
        /\ machines[a].production_params.ciclo_productivo = 1
        /\ machines[b].updated_at = None
        /\ machines[b].production_params.ciclo_total = 2
        /\ machines[b].production_params.ciclo_productivo = 1

\* C9: the keys of a stored row's setup_params are those of its type:
\* calibration, other fixed, roll change and product change always; knife,
\* punch and package change exactly for Manual and Semi-Automatica; the
\* packaging time exactly for Manual.
C9_SetupKeysByType ==
    \A name \in DOMAIN machines :
        DOMAIN machines[name].setup_params =
            {"calibracion", "otros", "cambio_rollo", "cambio_producto"}
            \cup (IF machines[name].type \in {"Manual", "Semi-Automatica"}
                  THEN {"cambio_cuchillo", "cambio_perforador", "cambio_paquete"}
                  ELSE {})
            \cup (IF machines[name].type = "Manual" THEN {"empaque"} ELSE {})

\* C9 witness: edited rows of two types with fewer fields than Manual
C9_Witness ==
    \E a, b \in DOMAIN machines :
        /\ machines[a].updated_at /= None
        /\ machines[a].type = "Automatica"
        /\ machines[b].updated_at /= None
        /\ machines[b].type = "Semi-Automatica"

\* C10: saving a new machine under a name that is already in the table
\* fails and leaves the table as it was (the failure is the duplicate-name
\* error, or the database error when the database cannot be reached); an
\* empty or blank name is rejected with the table untouched; every stored
\* name is non-empty and without surrounding blanks.
C10_SaveDuplicateOrBlank ==
    /\ [](\A name \in DOMAIN machines : name /= <<>> /\ Strip(name) = name)
    /\ [][last'.op = "add" =>
            /\ last'.name \in DOMAIN machines =>
                   /\ ~last'.ok
                   /\ last'.error \in {"duplicate_name", "db_error"}
                   /\ machines' = machines
            /\ last'.name = <<>> =>
                   /\ ~last'.ok
                   /\ last'.error = "name_required"
                   /\ machines' = machines
            /\ last'.error = "duplicate_name" => last'.name \in DOMAIN machines
            /\ last'.ok =>
                   /\ last'.name \notin DOMAIN machines
                   /\ DOMAIN machines' = DOMAIN machines \cup {last'.name}
                   /\ \A other \in DOMAIN machines : machines'[other] = machines[other]
       ]_vars

\* C10 witness: a save under an existing name was refused as a duplicate
C10_Witness ==
    /\ last.op = "add"
    /\ last.error = "duplicate_name"
    /\ ~last.ok
    /\ last.name \in DOMAIN machines
    /\ Cardinality(DOMAIN machines) = 2

\* the case of C10 with a blank name
C10_BlankRejected ==
    /\ last.op = "add"
    /\ last.error = "name_required"
    /\ machines /= EmptyDict

\* C11: update_machine_db called with an original name that is not in the
\* table at that moment fails (it reports that the machine was not found,
\* never success) and leaves the table as it was.
C11_UpdateNotFound ==
    [][(now' = now /\ last'.op = "update" /\ last'.name \notin DOMAIN machines) =>
          /\ ~last'.ok
          /\ machines' = machines
      ]_vars

\* the case of C11: an update of a machine that is not in the table while
\* another one is
C11_Case ==
    /\ last.op = "update"
    /\ last.ok
    /\ last.name \notin DOMAIN machines
    /\ last.new_name \notin DOMAIN machines
    /\ machines /= EmptyDict

\* C12: delete_machine_db called with a name that is not in the table fails
\* and leaves the table as it was; called with a name that is in the table
\* it removes that row and no other, unless the database cannot be reached.
C12_DeleteNotFound ==
    [][(now' = now /\ last'.op = "delete") =>
          /\ last'.name \notin DOMAIN machines =>
                 /\ ~last'.ok
                 /\ machines' = machines
          /\ (last'.name \in DOMAIN machines /\ last'.ok) =>
                 /\ DOMAIN machines' = DOMAIN machines \ {last'.name}
                 /\ \A other \in DOMAIN machines' : machines'[other] = machines[other]
      ]_vars

\* the part of C12 about a name that is in the table
C12_DeletePresent ==
    [][(now' = now /\ last'.op = "delete" /\ last'.name \in DOMAIN machines) =>
          IF last'.ok
          THEN /\ DOMAIN machines' = DOMAIN machines \ {last'.name}
               /\ \A other \in DOMAIN machines' : machines'[other] = machines[other]
          ELSE machines' = machines
      ]_vars

\* the production fields the estimate needs
RequiredProductionFields == {"unidades_por_minuto", "peso_por_unidad"}

\* C13: when units per minute or the unit weight is absent from the row's
\* production_params the run ends in the missing-parameter error, naming the
\* field and the machine, and shows no estimate computed from a default; an
\* absent setup field counts as 0 and causes no error.
C13_MissingRequiredParameter ==
    Calculated =>
        LET missing == RequiredProductionFields \ DOMAIN Row.production_params
        IN  IF missing /= {}
            THEN /\ result.outcome = "missing_parameter"
                 /\ result.parametro \in missing
                 /\ result.maquina \in DOMAIN machines
            ELSE result.outcome \in {"ok", "exceeds"}

\* the case of C13: an estimate of 0 units shown for a row without units
\* per minute
C13_Case ==
    /\ Calculated
    /\ result.outcome = "ok"
    /\ "unidades_por_minuto" \notin DOMAIN Row.production_params
    /\ RPos(result.tiempo_efectivo_produccion)
    /\ result.metrics["Unidades Estimadas"] = R(0)

\* the part of C13 about the setup fields: a row that lacks one is computed
\* without error, the field counting as 0
C13_SetupDefaults ==
    (Calculated /\ RequiredProductionFields \subseteq DOMAIN Row.production_params) =>
        /\ result.outcome \in {"ok", "exceeds"}
        /\ result.interrupciones_fijas =
               Field(Row.setup_params, "calibracion") + Field(Row.setup_params, "otros")

\* C14: created_at is the second of the save and never changes afterwards,
\* also when the row is renamed; updated_at is absent on a saved row, is set
\* to the clock by every successful update of the row and changes in no
\* other way, so it is absent exactly on the rows never updated.
C14_Timestamps ==
    /\ [](\A name \in DOMAIN machines :
             \/ machines[name].updated_at = None
             \/ machines[name].updated_at[1] >= machines[name].created_at)
    /\ [][/\ now' /= now => machines' = machines
          /\ \A name \in DOMAIN machines \cap DOMAIN machines' :
                 /\ machines'[name].created_at = machines[name].created_at
                 /\ machines'[name].updated_at /= machines[name].updated_at =>
                        /\ last'.op = "update" /\ last'.ok
                        /\ last'.name = name /\ last'.new_name = name
          /\ \A name \in DOMAIN machines' \ DOMAIN machines :
                 \/ /\ last'.op = "add" /\ last'.ok /\ last'.name = name
                    /\ machines'[name].created_at = now
                    /\ machines'[name].updated_at = None
                 \/ /\ last'.op = "update" /\ last'.ok /\ last'.new_name = name
                    /\ last'.name \in DOMAIN machines \ DOMAIN machines'
                    /\ machines'[name].created_at = machines[last'.name].created_at
          /\ (now' = now /\ last'.op = "update" /\ last'.ok
                /\ last'.name \in DOMAIN machines) =>
                 /\ last'.new_name \in DOMAIN machines'
                 /\ machines'[last'.new_name].updated_at = Some(now)
      ]_vars

\* C14 witness: a row saved at second 0 has just been renamed at second 1
\* and keeps its created_at, next to a row saved at second 1 and never
\* updated
C14_Witness ==
    /\ last.op = "update" /\ last.ok
    /\ last.new_name /= last.name
    /\ last.new_name \in DOMAIN machines
    /\ last.name \notin DOMAIN machines
    /\ machines[last.new_name].created_at = 0
    /\ machines[last.new_name].updated_at = Some(1)
    /\ \E other \in DOMAIN machines :
           machines[other].created_at = 1 /\ machines[other].updated_at = None

\* the case of C14 with an updated row next to a row never updated, saved
\* a second later
C14_TwoRows ==
    \E a, b \in DOMAIN machines :
        /\ machines[a].created_at = 0 /\ machines[a].updated_at = Some(1)
        /\ machines[b].created_at = 1 /\ machines[b].updated_at = None

\* C15: a run of the calculator page that computes an estimate (success or
\* interruptions exceeding the shift) changes neither the table (the set of
\* rows and every field of each, the selected row included) nor the machine
\* being edited.
C15_EstimateFrame ==
    [][(current_page' = "calculator" /\ result'.outcome \in {"ok", "exceeds"}) =>
          /\ machines' = machines
          /\ editing_machine' = editing_machine
      ]_vars

\* C15 witness: an estimate that ended in the exceeds outcome, computed
\* while an edit form was left open and two machines are stored
C15_Witness ==
    /\ current_page = "calculator"
    /\ result.outcome = "exceeds"
    /\ editing_machine /= None
    /\ editing_machine[1] /= result.maquina
    /\ Cardinality(DOMAIN machines) = 2

\* the case of C15 with a successful estimate
C15_Success ==
    /\ current_page = "calculator"
    /\ result.outcome = "ok"
    /\ editing_machine /= None

\* the profile and the shift of scenario B: Manual, 48 units per minute, a
\* cycle of 32 s with 27 s productive, calibration 10, other fixed 30, 8 h
\* with breakfast and lunch, no event of any kind
ScenarioB ==
    /\ Calculated
    /\ Row.type = "Manual"
    /\ DOMAIN Row.production_params
           = {"unidades_por_minuto", "peso_por_unidad", "ciclo_total",
              "ciclo_productivo", "ratio_productivo"}
    /\ Row.production_params.unidades_por_minuto = 48
    /\ Row.production_params.ciclo_total = 32
    /\ Row.production_params.ciclo_productivo = 27
    /\ {"calibracion", "otros"} \subseteq DOMAIN Row.setup_params
    /\ Row.setup_params.calibracion = 10
    /\ Row.setup_params.otros = 30
    /\ result.entrada.turno_horas = R(8)
    /\ result.entrada.desayuno /\ result.entrada.almuerzo
    /\ \A k \in DOMAIN result.entrada.n : result.entrada.n[k] = 0

\* C16: in scenario B the stored ratio is 27/32, the net available time is
\* 480 - 115 = 365 min, the productive time shows as 307.97 min and the
\* efficiency as 64.16 %.
C16_ScenarioB ==
    ScenarioB =>
        /\ Row.production_params.ratio_productivo = Frac(27, 32)
        /\ Frac(27, 32) = Frac(84375, 100000)
        /\ result.outcome = "ok"
        /\ result.analysis.turno_minutos = R(480)
        /\ result.tiempo_neto_disponible = R(365)
        /\ result.tiempo_neto_disponible = R(480 - 115)
        /\ Centesimas(result.analysis.tiempo_productivo) = 30797
        /\ Centesimas(result.analysis.eficiencia_percent) = 6416

\* C16 witness: scenario B has been computed
C16_Witness ==
    /\ ScenarioB
    /\ result.outcome = "ok"
    /\ result.tiempo_efectivo_produccion = Frac(365 * 27, 32)

\* C17: the total row of the interruptions table equals the lost time of
\* the time table.  In the success outcome both are calibration + other
\* fixed + meals + the variable lines + the cycle stoppage = shift minutes -
\* productive minutes; in the exceeds outcome both are calibration + other
\* fixed + meals + variable minutes, a value >= the shift minutes.
C17_TotalEqualsLostTime ==
    Calculated =>
        LET total == result.interruptions_table.total_interrupcion_min
            lost == result.analysis.tiempo_perdido
            lines == result.detalle_interrupciones_variables
            base == RAdd(R(Field(Row.setup_params, "calibracion")
                           + Field(Row.setup_params, "otros")
                           + result.tiempo_comidas),
                         SumOver(lines, DOMAIN lines))
        IN  /\ total = lost
            /\ IF result.outcome = "ok"
               THEN /\ total = RAdd(base, result.tiempo_detenido_ciclos)
                    /\ lost = RSub(result.turno_minutos,
                                   result.tiempo_efectivo_produccion)
               ELSE /\ total = base
                    /\ total = RAdd(R(result.interrupciones_fijas
                                      + result.tiempo_comidas),
                                    result.interrupciones_variables)
                    /\ RLe(result.turno_minutos, total)

\* C17 witness: a success with a cycle stoppage, meals and a variable line
\* in the detail, for a machine that was edited
C17_Witness ==
    /\ Calculated
    /\ result.outcome = "ok"
    /\ Row.updated_at /= None
    /\ RPos(result.tiempo_detenido_ciclos)
    /\ result.tiempo_comidas > 0
    /\ result.detalle_interrupciones_variables /= EmptyDict
    /\ Label("Paradas por Ciclo", 0) \in DOMAIN result.interruptions_table.rows

\* the case of C17 in the exceeds outcome, the total above the shift
C17_Exceeds ==
    /\ Calculated
    /\ result.outcome = "exceeds"
    /\ RLt(result.turno_minutos, result.interruptions_table.total_interrupcion_min)

\* what a step does to the number of rows, by the write it reports
RowsAdded ==
    IF now' /= now THEN 0
    ELSE IF last'.op = "add" /\ last'.ok THEN 1
    ELSE IF last'.op = "delete" /\ last'.ok /\ last'.name \in DOMAIN machines THEN -1
    ELSE 0

\* C18: a successful update that changes the name leaves the row under the
\* new name, nothing under the original name and as many rows as before,
\* the other rows untouched; an update onto the name of another row fails
\* and changes nothing; no write makes two rows into one, so the names stay
\* unique.
C18_RenameRekeys ==
    [][/\ (now' = now /\ last'.op = "update") =>
             LET original == last'.name
                 new == last'.new_name
             IN  /\ (last'.ok /\ new /= original) =>
                        /\ new \in DOMAIN machines'
                        /\ original \notin DOMAIN machines'
                        /\ Cardinality(DOMAIN machines')
                               = Cardinality(DOMAIN machines)
                        /\ \A other \in DOMAIN machines \ {original} :
                               /\ other \in DOMAIN machines'
                               /\ machines'[other] = machines[other]
                 /\ (new /= original /\ new \in DOMAIN machines) =>
                        /\ ~last'.ok
                        /\ machines' = machines
       /\ Cardinality(DOMAIN machines')
              = Cardinality(DOMAIN machines) + RowsAdded
      ]_vars

\* the part of C18 that holds: the same, for an update whose original name
\* is in the table when update_machine_db runs
C18_RenamePresent ==
    [][/\ (now' = now /\ last'.op = "update" /\ last'.name \in DOMAIN machines) =>
             LET original == last'.name
                 new == last'.new_name
             IN  /\ (last'.ok /\ new /= original) =>
                        /\ DOMAIN machines' = (DOMAIN machines \ {original}) \cup {new}
                        /\ Cardinality(DOMAIN machines')
                               = Cardinality(DOMAIN machines)
                        /\ machines'[new].created_at = machines[original].created_at
                        /\ \A other \in DOMAIN machines \ {original} :
                               machines'[other] = machines[other]
                 /\ (new /= original /\ new \in DOMAIN machines) =>
                        /\ ~last'.ok
                        /\ machines' = machines
       /\ Cardinality(DOMAIN machines')
              = Cardinality(DOMAIN machines) + RowsAdded
      ]_vars

\* the cases of C18 (reached under SpecGateway): a rename has just
\* succeeded next to another row; a rename onto the name of another row has
\* just been refused
C18_Renamed ==
    /\ last.op = "update" /\ last.ok
    /\ last.new_name /= last.name
    /\ last.new_name \in DOMAIN machines
    /\ last.name \notin DOMAIN machines
    /\ Cardinality(DOMAIN machines) = 2

C18_Refused ==
    /\ last.op = "update" /\ ~last.ok
    /\ last.error = "db_error"
    /\ last.new_name /= last.name
    /\ {last.name, last.new_name} \subseteq DOMAIN machines

\* C19: editing_machine is set only by "Editar" of a machine that is in the
\* table; a successful "Guardar Cambios" clears it, and so does every run
\* that finds the machine no longer among the machines it loads, so that
\* after every run the edit form is open only for a machine of the table;
\* a save that is rejected (blank name) or fails (database error) leaves it
\* set and the table unchanged.  ("Cancelar Edicion" clears it by its one
\* assignment, line 502.)
C19_EditingProtocol ==
    /\ [](editing_machine /= None => editing_machine[1] \in DOMAIN machines)
    /\ [][/\ (editing_machine' /= None /\ editing_machine' /= editing_machine) =>
                 /\ current_page = "configuration"
                 /\ current_page' = "configuration"
                 /\ last' = NoWrite
                 /\ machines' = machines
                 /\ editing_machine'[1] \in DOMAIN machines
          /\ (last'.op = "update" /\ last'.ok) => editing_machine' = None
          /\ (last'.op = "update" /\ ~last'.ok) =>
                 /\ editing_machine /= None
                 /\ editing_machine' = editing_machine
                 /\ editing_machine' = Some(last'.name)
                 /\ machines' = machines
          /\ (editing_machine /= None /\ editing_machine[1] \notin DOMAIN machines') =>
                 editing_machine' = None
      ]_vars

\* C19 witness: a save of the edit has just failed on the name of another
\* machine and the edit form is still open for the machine
C19_Witness ==
    /\ last.op = "update" /\ ~last.ok
    /\ last.error = "db_error"
    /\ editing_machine = Some(last.name)
    /\ last.new_name /= last.name
    /\ {last.name, last.new_name} \subseteq DOMAIN machines

\* the cases of C19: the machine being edited has just been deleted and the
\* form is closed; a save with a blank name has just been rejected; a save
\* has just succeeded and the form is closed
C19_DeletedWhileEdited ==
    /\ last.op = "delete" /\ last.ok
    /\ editing_machine = None
    /\ machines /= EmptyDict

C19_BlankRejected ==
    /\ last.op = "update" /\ last.error = "name_required"
    /\ editing_machine = Some(last.name)

C19_SavedAndClosed ==
    /\ last.op = "update" /\ last.ok
    /\ last.new_name /= last.name
    /\ editing_machine = None

====
